---- MODULE Spec2Model ----
(***************************************************************************)
(* Reactive persistent storage layer of src/core/vendetta/storage.ts:      *)
(* the deep reactive proxy (createProxy), the storage session              *)
(* (createStorage), the file backend with its MMKV migration               *)
(* (createMMKVBackend, createFileBackend) and the sync adapter             *)
(* (wrapSync, awaitStorage).                                               *)
(***************************************************************************)
EXTENDS Integers, Sequences, FiniteSets, TLC

(***************************************************************************)
(* Bounds of the model.                                                    *)
(***************************************************************************)
\* raw (unwrapped) objects that may exist: the loaded document's plus literals
MaxRaw == 3
\* Proxy instances that may be created in one session
MaxPx == 4
\* SET and DEL events one session may emit
MaxMut == 3
\* operations a consumer performs on one session
MaxOps == 4

(***************************************************************************)
(* JavaScript values.  A value is a pair <<tag, n>>: a primitive, null,    *)
(* undefined, a raw object of the heap or a Proxy instance.                *)
(***************************************************************************)
Keys == {"a", "b"}

Undef == <<"undefined", 0>>

Null == <<"null", 0>>

Num == <<"number", 1>>

Str == <<"string", 1>>

Bool == <<"boolean", 1>>

Raw(i) == <<"raw", i>>

Px(i) == <<"px", i>>

IsRaw(v) == v[1] = "raw"

IsPx(v) == v[1] = "px"

\* the typeof operator: null, objects and proxies of objects are "object"
Typeof(v) == IF v[1] \in {"null", "raw", "px"} THEN "object" ELSE v[1]

EmptyObj == [k \in Keys |-> Undef]

VARIABLES
  heap,                \* raw objects: heap[i][k] is property k of raw object i
  px,                  \* the Proxy instances: target and captured path of each
  childrens,           \* the WeakMap childrens, as a set of <<key, proxy id>>
  proxiedChildrenSet,  \* the WeakSet proxiedChildrenSet
  listeners,           \* the emitter's listeners per event kind
  emitted,             \* SET and DEL events emitted so far
  setCalls,            \* backend.set invocations so far
  events,              \* the events emitted by the last operation
  handed,              \* references the consumer holds: the root proxy and read results
  userObjs,            \* object literals the consumer created
  nOps,                \* operations performed so far
  lastOp,              \* the last operation, its arguments and its outcome
  sub,                 \* the useProxy subscription: its phase and its storage argument
  refreshed,           \* forceUpdate() calls made during the last operation
  writes,              \* the backend.set() calls made so far: where each stands
  disk,                \* what the backend's file holds: the last completed write
  completed            \* the backend.set() calls whose write completed, in that order

pvars == <<heap, px, childrens, proxiedChildrenSet, listeners, emitted, setCalls,
           events, handed, userObjs, nOps, lastOp, sub, refreshed, writes, disk,
           completed>>

VARIABLES
  file,       \* content of the store's file under DocumentsDirPath, or Absent
  legacy,     \* RTNMMKVManager's item for the store, or NullItem
  cache,      \* content of CacheDirPath/mmkv/<store>, or Absent
  kind,       \* per backend: "none" (not created), "mmkv", "file"
  mpc,        \* per backend: where its migration promise stands
  oldData,    \* per backend: the migration's oldData
  gpc,        \* per backend: where its get() call stands
  gres,       \* per backend: what get() resolved to
  spc,        \* per backend: where its set() call stands
  faults,     \* native calls that rejected so far
  hist        \* per backend: what is recorded about its run

mvars == <<file, legacy, cache, kind, mpc, oldData, gpc, gres, spc, faults, hist>>

VARIABLES
  pstate,      \* per wrapped store: "pending", "resolved" or "rejected"
  awaited,     \* per wrapped store: wrapSync's variable awaited
  awaitQueue,  \* per wrapped store: wrapSync's awaitQueue, callback ids in push order
  cbs,         \* the callbacks handed to awaitInit so far
  runLog,      \* the callbacks invoked so far, in invocation order
  inner,       \* awaitStorage: per store, whether its inner promise's res was called
  awaitCall,   \* whether awaitStorage(...stores) has been called
  awaitAll,    \* the promise awaitStorage returned: "none", "pending" or "resolved"
  order        \* the stores in the order their promises resolved

svars == <<pstate, awaited, awaitQueue, cbs, runLog, inner, awaitCall, awaitAll, order>>

VARIABLES
  ph           \* per wrapped store: the empty object wrapSync's Proxy is made on

\* what each part of the system leaves alone
NotSession == <<mvars, svars, ph>>

NotBackend == <<pvars, svars, ph>>

NotSync == <<pvars, mvars, ph>>

(***************************************************************************)
(* The session state that the traps thread through their calls.            *)
(***************************************************************************)
State ==
  [heap |-> heap, px |-> px, ch |-> childrens, pset |-> proxiedChildrenSet,
   ls |-> listeners, ev |-> <<>>, calls |-> 0, storage |-> sub.storage, refr |-> 0]

\* WeakMap.has / WeakMap.get on childrens
ChHas(st, v) == \E e \in st.ch : e[1] = v

ChGet(st, v) == IF ChHas(st, v) THEN Px((CHOOSE e \in st.ch : e[1] = v)[2]) ELSE Undef

(***************************************************************************)
(* Emitter (./Emitter is not among the sources): listeners of an event     *)
(* kind are invoked synchronously, in registration order, by emit.         *)
(***************************************************************************)
\* createStorage's handler: () => backend.set(proxy)
handler(st) == [st EXCEPT !.calls = @ + 1]

\* useProxy's listener without its test of the removed value
listenerAlways(st, e, value) == [st EXCEPT !.refr = @ + 1]

\* useProxy's listener: if (event === "DEL" && data.value === storage) return;
\* forceUpdate()
listener(st, e, value) ==
  IF e = "DEL" /\ value = st.storage THEN st ELSE [st EXCEPT !.refr = @ + 1]

Listener(st, l, e, value) == IF l = "handler" THEN handler(st) ELSE listener(st, e, value)

RECURSIVE Notify(_, _, _, _)
Notify(st, ls, e, value) ==
  IF ls = <<>> THEN st ELSE Notify(Listener(st, Head(ls), e, value), Tail(ls), e, value)

emit(st, e, path, value) ==
  Notify([st EXCEPT !.ev = Append(@, [kind |-> e, path |-> path, value |-> value])],
         st.ls[e], e, value)

\* the registrations createStorage makes: handler on SET and on DEL
createStorageListenersNoDel == [GET |-> <<>>, SET |-> <<"handler">>, DEL |-> <<>>]

createStorageListeners == [GET |-> <<>>, SET |-> <<"handler">>, DEL |-> <<"handler">>]

(***************************************************************************)
(* createProxy: the inner createProxy(target, path) and its three traps.   *)
(***************************************************************************)
\* new Proxy(target, {...}) with path captured; the new proxy is Px(Len(px) + 1)
createProxy(st, target, path) ==
  [st EXCEPT !.px = Append(@, [target |-> target, path |-> path])]

\* childrens.set(value, childrenProxy)
childrensSetSkip(st, value, id) == st

childrensSet(st, value, id) == [st EXCEPT !.ch = @ \cup {<<value, id>>}]

RECURSIVE get(_, _, _), set(_, _, _, _), deleteProperty(_, _, _)

\* target[prop], target being a raw object or itself a proxy
TargetGet(st, t, k) ==
  IF IsRaw(t) THEN [st |-> st, ret |-> st.heap[t[2]][k]] ELSE get(st, t[2], k)

\* target[prop] = value
TargetSet(st, t, k, v) ==
  IF IsRaw(t) THEN [st |-> [st EXCEPT !.heap[t[2]][k] = v], threw |-> FALSE]
  ELSE set(st, t[2], k, v)

\* delete target[prop]
TargetDelete(st, t, k) ==
  IF IsRaw(t) THEN [st |-> [st EXCEPT !.heap[t[2]][k] = Undef], ret |-> TRUE]
  ELSE deleteProperty(st, t[2], k)

\* the get trap of proxy p
get(st, p, k) ==
  LET newPath == Append(st.px[p].path, k)
      r == TargetGet(st, st.px[p].target, k)
      value == r.ret
  IN IF value # Undef /\ value # Null
     THEN LET s1 == emit(r.st, "GET", newPath, value)
          IN IF Typeof(value) = "object"
             THEN IF value \in s1.pset THEN [st |-> s1, ret |-> value]
                  ELSE IF ChHas(s1, value) THEN [st |-> s1, ret |-> ChGet(s1, value)]
                  ELSE LET s2 == createProxy(s1, value, newPath)
                       IN [st |-> childrensSet(s2, value, Len(s2.px)),
                           ret |-> Px(Len(s2.px))]
             ELSE [st |-> s1, ret |-> value]
     ELSE [st |-> r.st, ret |-> value]

\* emit("SET", {path: [...path, prop], value: target[prop]}); return true
SetEmit(st, p, k) ==
  LET r == TargetGet(st, st.px[p].target, k)
  IN [st |-> emit(r.st, "SET", Append(st.px[p].path, k), r.ret), threw |-> FALSE]

\* the set trap of proxy p; new Proxy(null, ...) throws a TypeError
set(st, p, k, v) ==
  LET t == st.px[p].target
  IN IF Typeof(v) = "object"
     THEN IF ChHas(st, v)
          THEN LET w == TargetSet(st, t, k, ChGet(st, v))
               IN IF w.threw THEN w ELSE SetEmit(w.st, p, k)
          ELSE IF v = Null THEN [st |-> st, threw |-> TRUE]
          ELSE LET s1 == createProxy(st, v, Append(st.px[p].path, k))
                   s2 == childrensSet(s1, v, Len(s1.px))
                   s3 == [s2 EXCEPT !.pset = @ \cup {v}]
                   w == TargetSet(s3, t, k, Px(Len(s1.px)))
               IN IF w.threw THEN w ELSE SetEmit(w.st, p, k)
     ELSE LET w == TargetSet(st, t, k, v)
          IN IF w.threw THEN w ELSE SetEmit(w.st, p, k)

\* typeof target[prop] === "object" ? childrens.get(target[prop])! : target[prop]
DelValue(st, t, k) ==
  LET r1 == TargetGet(st, t, k)
      r2 == TargetGet(r1.st, t, k)
  IN IF Typeof(r1.ret) = "object"
     THEN [st |-> r2.st, ret |-> ChGet(r2.st, r2.ret)]
     ELSE r2

\* the deleteProperty trap of proxy p
deleteProperty(st, p, k) ==
  LET t == st.px[p].target
      v == DelValue(st, t, k)
      d == TargetDelete(v.st, t, k)
  IN IF d.ret
     THEN [st |-> emit(d.st, "DEL", Append(st.px[p].path, k), v.ret), ret |-> TRUE]
     ELSE [st |-> d.st, ret |-> FALSE]

(***************************************************************************)
(* Operations of a consumer on a reference it holds.  A raw object (one a  *)
(* read handed out unwrapped) is accessed without any trap.                *)
(***************************************************************************)
RefGet(st, x, k) == TargetGet(st, x, k)

RefSet(st, x, k, v) == TargetSet(st, x, k, v)

RefDelete(st, x, k) == TargetDelete(st, x, k)

\* the raw object a reference stands for, through every wrapper
RECURSIVE Unwrap(_, _)
Unwrap(st, v) == IF IsPx(v) THEN Unwrap(st, st.px[v[2]].target) ELSE v

\* the value stored under k in the raw object behind x (no trap runs)
Stored(st, x, k) == st.heap[Unwrap(st, x)[2]][k]

\* raw objects reachable from a value
RECURSIVE Reach(_, _, _)
Reach(st, v, n) ==
  IF Typeof(v) # "object" \/ v = Null \/ n = 0 THEN {}
  ELSE LET r == Unwrap(st, v)
       IN {r[2]} \cup UNION {Reach(st, st.heap[r[2]][k], n - 1) : k \in Keys}

\* a Document is a JSON tree: storing v behind x must not close a cycle
Acyclic(st, x, v) == Unwrap(st, x)[2] \notin Reach(st, v, MaxRaw + 1)

(***************************************************************************)
(* The session: createStorage(backend) has resolved.                       *)
(***************************************************************************)
\* the documents backend.get() may have produced (JSON.parse output: raw objects)
Docs ==
  { <<EmptyObj>>,
    <<[a |-> Str, b |-> Null]>>,
    <<[a |-> Raw(2), b |-> Num], [a |-> Num, b |-> Undef]>> }

\* what the traps that ran did to the session
CommitSession(st) ==
  /\ heap' = st.heap
  /\ px' = st.px
  /\ childrens' = st.ch
  /\ proxiedChildrenSet' = st.pset
  /\ listeners' = st.ls
  /\ events' = st.ev
  /\ setCalls' = setCalls + st.calls
  /\ emitted' = [e \in {"SET", "DEL"} |->
                   emitted[e] + Cardinality({i \in 1..Len(st.ev) : st.ev[i].kind = e})]
  /\ refreshed' = st.refr
  /\ Len(st.px) <= MaxPx
  /\ emitted'["SET"] + emitted'["DEL"] <= MaxMut
  /\ UNCHANGED NotSession

\* one operation of the consumer: each handler call it caused has started a
\* backend.set(proxy), which awaits migratePromise before it does anything
Commit(st) ==
  /\ CommitSession(st)
  /\ nOps' = nOps + 1
  /\ writes' = writes \o [i \in 1..st.calls |-> [pc |-> "await", data |-> <<>>]]
  /\ UNCHANGED <<sub, disk, completed>>

PInit ==
  /\ heap \in Docs
  /\ px = <<[target |-> Raw(1), path |-> <<>>]>>
  /\ childrens = {}
  /\ proxiedChildrenSet = {}
  /\ listeners = createStorageListeners
  /\ emitted = [e \in {"SET", "DEL"} |-> 0]
  /\ setCalls = 0
  /\ events = <<>>
  /\ handed = {Px(1)}
  /\ userObjs = {}
  /\ nOps = 0
  /\ lastOp = [op |-> "init"]
  /\ sub = [phase |-> "none", storage |-> Undef]
  /\ refreshed = 0
  /\ writes = <<>>
  /\ disk = <<>>
  /\ completed = <<>>

\* x[k]
Read(x, k) ==
  /\ nOps < MaxOps
  /\ LET r == RefGet(State, x, k)
     IN /\ Commit(r.st)
        /\ handed' = handed \cup
                      (IF Typeof(r.ret) = "object" /\ r.ret # Null THEN {r.ret} ELSE {})
        /\ lastOp' = [op |-> "get", recv |-> x, key |-> k, ret |-> r.ret]
        /\ UNCHANGED userObjs

\* x[k] = v
Write(x, k, v) ==
  /\ nOps < MaxOps
  /\ Acyclic(State, x, v)
  /\ LET w == RefSet(State, x, k, v)
     IN /\ Commit(w.st)
        /\ lastOp' = [op |-> "set", recv |-> x, key |-> k, val |-> v, threw |-> w.threw,
                      calls |-> w.st.calls]
        /\ UNCHANGED <<handed, userObjs>>

\* x[k] = { a: c }, an object literal the consumer keeps a reference to
WriteNew(x, k, c) ==
  /\ nOps < MaxOps
  /\ Len(heap) < MaxRaw
  /\ LET o == Raw(Len(heap) + 1)
         s0 == [State EXCEPT !.heap = Append(@, [EmptyObj EXCEPT !["a"] = c])]
         w == RefSet(s0, x, k, o)
     IN /\ Commit(w.st)
        /\ userObjs' = userObjs \cup {o}
        /\ lastOp' = [op |-> "set", recv |-> x, key |-> k, val |-> o, threw |-> w.threw,
                      calls |-> w.st.calls]
        /\ UNCHANGED handed

\* delete x[k]
Delete(x, k) ==
  /\ nOps < MaxOps
  /\ LET held == Stored(State, x, k)
         d == RefDelete(State, x, k)
     IN /\ Commit(d.st)
        /\ lastOp' = [op |-> "del", recv |-> x, key |-> k, held |-> held,
                      heldProxy |-> ChGet(State, held), ret |-> d.ret,
                      calls |-> d.st.calls]
        /\ UNCHANGED <<handed, userObjs>>

Prims == {Num, Str, Bool}

PNext ==
  \/ \E x \in handed, k \in Keys : Read(x, k)
  \/ \E x \in handed, k \in Keys, v \in Prims \cup {Undef, Null} \cup handed \cup userObjs :
       Write(x, k, v)
  \/ \E x \in handed, k \in Keys, c \in {Undef, Num} \cup userObjs : WriteNew(x, k, c)
  \/ \E x \in handed, k \in Keys : Delete(x, k)

(***************************************************************************)
(* Persistence: backend.set(proxy) of createFileBackend.  After its await  *)
(* of migratePromise the call serializes the document through the proxy    *)
(* and hands the text to the native writeFile, which completes later.      *)
(***************************************************************************)
\* JSON.stringify(v) as a sequence of tokens; properties are read through the get
\* trap when v is a proxy, and properties holding undefined are left out
RECURSIVE stringify(_, _)
stringifyKey(acc, v, k) ==
  LET r == RefGet(acc.st, v, k)
      sub1 == stringify(r.st, r.ret)
  IN IF r.ret = Undef THEN [st |-> r.st, out |-> acc.out]
     ELSE [st |-> sub1.st, out |-> acc.out \o <<k>> \o sub1.out]

stringify(st, v) ==
  IF Typeof(v) # "object" \/ v = Null THEN [st |-> st, out |-> <<v[1]>>]
  ELSE LET ra == stringifyKey([st |-> st, out |-> <<"{">>], v, "a")
           rb == stringifyKey(ra, v, "b")
       IN [st |-> rb.st, out |-> Append(rb.out, "}")]

\* the document as it stands, read without running any trap
RECURSIVE Snapshot(_, _)
Snapshot(st, v) ==
  IF Typeof(v) # "object" \/ v = Null THEN <<v[1]>>
  ELSE LET o == st.heap[Unwrap(st, v)[2]]
           part(k) == IF o[k] = Undef THEN <<>> ELSE <<k>> \o Snapshot(st, o[k])
       IN <<"{">> \o part("a") \o part("b") \o <<"}">>

\* the backend.set calls resume in the order they were made
FirstAwaiting(i) ==
  /\ i \in 1..Len(writes)
  /\ writes[i].pc = "await"
  /\ \A j \in 1..(i - 1) : writes[j].pc # "await"

\* set: after await migratePromise, JSON.stringify(data) and the call of writeFile
SetResume(i) ==
  /\ FirstAwaiting(i)
  /\ LET r == stringify(State, Px(1))
     IN /\ CommitSession(r.st)
        /\ writes' = [writes EXCEPT ![i] = [pc |-> "writing", data |-> r.out]]
  /\ lastOp' = [op |-> "stringify", call |-> i]
  /\ UNCHANGED <<handed, userObjs, nOps, sub, disk, completed>>

\* what an operation of the backend leaves alone in the session
BackendUnchanged ==
  <<heap, px, childrens, proxiedChildrenSet, listeners, emitted, setCalls, handed,
    userObjs, nOps, sub>>

\* a writeFile that keeps the file when a later call's text is already in it
WriteFileDoneNewest(i) ==
  /\ i \in 1..Len(writes)
  /\ writes[i].pc = "writing"
  /\ writes' = [writes EXCEPT ![i].pc = "done"]
  /\ disk' = IF \E n \in 1..Len(completed) : completed[n] > i THEN disk
             ELSE writes[i].data
  /\ completed' = Append(completed, i)
  /\ lastOp' = [op |-> "writeFile", call |-> i]
  /\ events' = <<>>
  /\ refreshed' = 0
  /\ UNCHANGED BackendUnchanged
  /\ UNCHANGED NotSession

\* the native writeFile of call i completes: the file holds its text
WriteFileDone(i) ==
  /\ i \in 1..Len(writes)
  /\ writes[i].pc = "writing"
  /\ writes' = [writes EXCEPT ![i].pc = "done"]
  /\ disk' = writes[i].data
  /\ completed' = Append(completed, i)
  /\ lastOp' = [op |-> "writeFile", call |-> i]
  /\ events' = <<>>
  /\ refreshed' = 0
  /\ UNCHANGED BackendUnchanged
  /\ UNCHANGED NotSession

\* the native writeFile of call i rejects: set's promise rejects, nobody awaits it
WriteFileFail(i) ==
  /\ i \in 1..Len(writes)
  /\ writes[i].pc = "writing"
  /\ writes' = [writes EXCEPT ![i].pc = "rejected"]
  /\ lastOp' = [op |-> "writeFail", call |-> i, doc |-> Snapshot(State, Px(1))]
  /\ events' = <<>>
  /\ refreshed' = 0
  /\ UNCHANGED <<disk, completed>>
  /\ UNCHANGED BackendUnchanged
  /\ UNCHANGED NotSession

\* the consumer's operations, with fewer values to assign than PNext offers
PersistNext ==
  \/ \E x \in handed, k \in Keys : Read(x, k)
  \/ \E x \in handed, k \in Keys, v \in {Num, Null} : Write(x, k, v)
  \/ \E x \in handed, k \in Keys : WriteNew(x, k, Undef)
  \/ \E x \in handed, k \in Keys : Delete(x, k)
  \/ \E i \in 1..MaxMut : SetResume(i)
  \/ \E i \in 1..MaxMut : WriteFileDone(i)
  \/ \E i \in 1..MaxMut : WriteFileFail(i)

(***************************************************************************)
(* useProxy(storage): a component subscribes on mount and unsubscribes on  *)
(* unmount.                                                                *)
(***************************************************************************)
\* the state of the session that an operation of the hook leaves alone
HookUnchanged ==
  <<heap, px, childrens, proxiedChildrenSet, emitted, setCalls, handed, userObjs, nOps,
    writes, disk, completed>>

\* useProxy(x) and its effect: throws when x exposes no emitter, else
\* emitter.on("SET", listener); emitter.on("DEL", listener)
Mount(x) ==
  /\ sub.phase = "none"
  /\ IF IsPx(x)
     THEN /\ sub' = [phase |-> "mounted", storage |-> x]
          /\ listeners' = [listeners EXCEPT !["SET"] = Append(@, "listener"),
                                            !["DEL"] = Append(@, "listener")]
     ELSE UNCHANGED <<sub, listeners>>
  /\ lastOp' = [op |-> "useProxy", arg |-> x, threw |-> ~IsPx(x)]
  /\ events' = <<>>
  /\ refreshed' = 0
  /\ UNCHANGED HookUnchanged
  /\ UNCHANGED NotSession

\* the effect's cleanup: emitter.off("SET", listener); emitter.off("DEL", listener)
Unmount ==
  /\ sub.phase = "mounted"
  /\ sub' = [sub EXCEPT !.phase = "unmounted"]
  /\ listeners' = [e \in DOMAIN listeners |->
                     SelectSeq(listeners[e], LAMBDA l : l # "listener")]
  /\ lastOp' = [op |-> "unmount"]
  /\ events' = <<>>
  /\ refreshed' = 0
  /\ UNCHANGED HookUnchanged
  /\ UNCHANGED NotSession

HNext ==
  \/ PNext
  \/ \E x \in handed \cup userObjs : Mount(x)
  \/ Unmount


(***************************************************************************)
(* The file backend and the migration from the legacy MMKV store           *)
(* (createMMKVBackend, createFileBackend).  One store name; its file, its  *)
(* legacy item and its overflow cache file are shared by every backend     *)
(* made for it.  Each await of a native call is one step.                  *)
(***************************************************************************)
\* native calls that may reject in one run
MaxFaults == 1

\* the backends made for the store, in two flavours: createMMKVBackend, createFileBackend
Backends == {1, 2}

\* documents: the legacy one, one written by set(), and defaultData
DocD == "D"

DocE == "E"

DefaultData == "DEF"

\* file contents and legacy items: JSON text, unparseable text, the sentinel, nothing
Absent == <<"absent", "">>

NullItem == <<"null", "">>

BadText == <<"bad", "">>

LargeValue == <<"large", "!!LARGE_VALUE!!">>

\* JSON.stringify(doc)
JSONstringify(doc) == <<"json", doc>>

\* JSON.parse(text) succeeds on JSON text only
Parses(text) == text[1] = "json"

JSONparse(text) == text[2]

\* const defaultStr = JSON.stringify(defaultData)
defaultStr == JSONstringify(DefaultData)

\* a backend that exists and has a migration, a get() or a set() still in flight
Active(b) ==
  /\ kind[b] # "none"
  /\ \/ gpc[b] \notin {"resolved", "rejected"}
     \/ mpc[b] \notin {"done", "nomig", "rejected"}
     \/ spc[b] \in {"await", "writeFile"}

\* backend c takes a step: it and every other active backend have company from now on
Step(c, h) ==
  [b \in Backends |->
     IF (b # c /\ Active(b)) \/ (b = c /\ \E d \in Backends \ {c} : Active(d))
     THEN [h[b] EXCEPT !.overlap = TRUE] ELSE h[b]]

NoHist ==
  [born |-> [file |-> Absent, legacy |-> NullItem], overlap |-> FALSE, failed |-> "none",
   touched |-> FALSE, wrote |-> FALSE, removed |-> FALSE]

MInit ==
  /\ file \in {Absent, JSONstringify(DocD), BadText}
  /\ legacy \in {NullItem, JSONstringify(DocD), BadText, LargeValue}
  /\ cache \in IF legacy = LargeValue THEN {Absent, JSONstringify(DocD), BadText} ELSE {Absent}
  /\ kind = [b \in Backends |-> "none"]
  /\ mpc = [b \in Backends |-> "none"]
  /\ oldData = [b \in Backends |-> defaultStr]
  /\ gpc = [b \in Backends |-> "idle"]
  /\ gres = [b \in Backends |-> "none"]
  /\ spc = [b \in Backends |-> "idle"]
  /\ faults = 0
  /\ hist = [b \in Backends |-> NoHist]

\* createMMKVBackend(store): the migration starts and awaits fileExists(path)
CreateMMKVBackend(b) ==
  /\ kind[b] = "none"
  /\ kind' = [kind EXCEPT ![b] = "mmkv"]
  /\ mpc' = [mpc EXCEPT ![b] = "fileExists"]
  /\ hist' = [Step(b, hist) EXCEPT ![b].born = [file |-> file, legacy |-> legacy]]
  /\ UNCHANGED NotBackend
  /\ UNCHANGED <<file, legacy, cache, oldData, gpc, gres, spc, faults>>

\* createFileBackend(file) without a migratePromise
CreateFileBackend(b) ==
  /\ kind[b] = "none"
  /\ kind' = [kind EXCEPT ![b] = "file"]
  /\ mpc' = [mpc EXCEPT ![b] = "nomig"]
  /\ hist' = [Step(b, hist) EXCEPT ![b].born = [file |-> file, legacy |-> legacy]]
  /\ UNCHANGED NotBackend
  /\ UNCHANGED <<file, legacy, cache, oldData, gpc, gres, spc, faults>>

\* if (await RTNFileManager.fileExists(path)) return; then getItem is called
MigFileExistsNoReturn(b) ==
  /\ mpc[b] = "fileExists"
  /\ mpc' = [mpc EXCEPT ![b] = "getItem"]
  /\ hist' = Step(b, hist)
  /\ UNCHANGED NotBackend
  /\ UNCHANGED <<file, legacy, cache, kind, oldData, gpc, gres, spc, faults>>

MigFileExists(b) ==
  /\ mpc[b] = "fileExists"
  /\ mpc' = [mpc EXCEPT ![b] = IF file # Absent THEN "done" ELSE "getItem"]
  /\ hist' = Step(b, hist)
  /\ UNCHANGED NotBackend
  /\ UNCHANGED <<file, legacy, cache, kind, oldData, gpc, gres, spc, faults>>

\* try { JSON.parse(oldData) } catch { oldData = defaultStr }
Validated(text) == IF Parses(text) THEN text ELSE defaultStr

\* oldData = (await getItem(store)) ?? defaultStr; the sentinel leads to the cache
MigGetItem(b) ==
  /\ mpc[b] = "getItem"
  /\ LET got == IF legacy = NullItem THEN defaultStr ELSE legacy
     IN IF got = LargeValue
        THEN /\ mpc' = [mpc EXCEPT ![b] = "cacheExists"]
             /\ oldData' = [oldData EXCEPT ![b] = got]
        ELSE /\ mpc' = [mpc EXCEPT ![b] = "writeFile"]
             /\ oldData' = [oldData EXCEPT ![b] = Validated(got)]
  /\ hist' = [Step(b, hist) EXCEPT ![b].touched = TRUE]
  /\ UNCHANGED NotBackend
  /\ UNCHANGED <<file, legacy, cache, kind, gpc, gres, spc, faults>>

\* if (await fileExists(cachePath)) ... else oldData = defaultStr
MigCacheExists(b) ==
  /\ mpc[b] = "cacheExists"
  /\ IF cache # Absent
     THEN /\ mpc' = [mpc EXCEPT ![b] = "cacheRead"]
          /\ UNCHANGED oldData
     ELSE /\ mpc' = [mpc EXCEPT ![b] = "writeFile"]
          /\ oldData' = [oldData EXCEPT ![b] = defaultStr]
  /\ hist' = Step(b, hist)
  /\ UNCHANGED NotBackend
  /\ UNCHANGED <<file, legacy, cache, kind, gpc, gres, spc, faults>>

\* oldData = await readFile(cachePath, "utf8")
MigCacheRead(b) ==
  /\ mpc[b] = "cacheRead"
  /\ mpc' = [mpc EXCEPT ![b] = "writeFile"]
  /\ oldData' = [oldData EXCEPT ![b] = Validated(cache)]
  /\ hist' = Step(b, hist)
  /\ UNCHANGED NotBackend
  /\ UNCHANGED <<file, legacy, cache, kind, gpc, gres, spc, faults>>

\* await writeFile("documents", filePathFixer(mmkvPath), oldData, "utf8")
MigWriteFile(b) ==
  /\ mpc[b] = "writeFile"
  /\ file' = oldData[b]
  /\ mpc' = [mpc EXCEPT ![b] = "getItem2"]
  /\ hist' = [Step(b, hist) EXCEPT ![b].wrote = TRUE]
  /\ UNCHANGED NotBackend
  /\ UNCHANGED <<legacy, cache, kind, oldData, gpc, gres, spc, faults>>

\* if ((await getItem(store)) !== null) removeItem(store)
MigRemoveItem(b) ==
  /\ mpc[b] = "getItem2"
  /\ mpc' = [mpc EXCEPT ![b] = "done"]
  /\ legacy' = NullItem
  /\ hist' = [Step(b, hist) EXCEPT ![b].touched = TRUE,
                                   ![b].removed = @ \/ legacy # NullItem]
  /\ UNCHANGED NotBackend
  /\ UNCHANGED <<file, cache, kind, oldData, gpc, gres, spc, faults>>

\* fileExists, getItem or readFile rejects: the migration promise rejects
MigFail(b) ==
  /\ faults < MaxFaults
  /\ mpc[b] \in {"fileExists", "getItem", "cacheExists", "cacheRead", "getItem2"}
  /\ mpc' = [mpc EXCEPT ![b] = "rejected"]
  /\ faults' = faults + 1
  /\ hist' = [Step(b, hist) EXCEPT ![b].failed = "migration"]
  /\ UNCHANGED NotBackend
  /\ UNCHANGED <<file, legacy, cache, kind, oldData, gpc, gres, spc>>

\* the migration's writeFile rejects: the migration promise rejects
MigWriteFailSwallowed(b) ==
  /\ faults < MaxFaults
  /\ mpc[b] = "writeFile"
  /\ mpc' = [mpc EXCEPT ![b] = "getItem2"]
  /\ faults' = faults + 1
  /\ hist' = [Step(b, hist) EXCEPT ![b].failed = "migrationWrite"]
  /\ UNCHANGED NotBackend
  /\ UNCHANGED <<file, legacy, cache, kind, oldData, gpc, gres, spc>>

MigWriteFail(b) ==
  /\ faults < MaxFaults
  /\ mpc[b] = "writeFile"
  /\ mpc' = [mpc EXCEPT ![b] = "rejected"]
  /\ faults' = faults + 1
  /\ hist' = [Step(b, hist) EXCEPT ![b].failed = "migrationWrite"]
  /\ UNCHANGED NotBackend
  /\ UNCHANGED <<file, legacy, cache, kind, oldData, gpc, gres, spc>>

\* backend.get() is called: await migratePromise
GetCall(b) ==
  /\ kind[b] # "none" /\ gpc[b] = "idle"
  /\ gpc' = [gpc EXCEPT ![b] = "await"]
  /\ hist' = Step(b, hist)
  /\ UNCHANGED NotBackend
  /\ UNCHANGED <<file, legacy, cache, kind, mpc, oldData, gres, spc, faults>>

\* await migratePromise settles: get() goes on, or rejects with the migration
GetAwaitMigration(b) ==
  /\ gpc[b] = "await"
  /\ mpc[b] \in {"done", "nomig", "rejected"}
  /\ gpc' = [gpc EXCEPT ![b] = IF mpc[b] = "rejected" THEN "rejected" ELSE "fileExists"]
  /\ hist' = Step(b, hist)
  /\ UNCHANGED NotBackend
  /\ UNCHANGED <<file, legacy, cache, kind, mpc, oldData, gres, spc, faults>>

\* if (await fileExists(path)) ...
GetFileExists(b) ==
  /\ gpc[b] = "fileExists"
  /\ gpc' = [gpc EXCEPT ![b] = IF file # Absent THEN "readFile" ELSE "writeDefault"]
  /\ hist' = Step(b, hist)
  /\ UNCHANGED NotBackend
  /\ UNCHANGED <<file, legacy, cache, kind, mpc, oldData, gres, spc, faults>>

\* content = await readFile(path); try { return JSON.parse(content) } catch {}
GetReadFileNoCatch(b) ==
  /\ gpc[b] = "readFile" /\ file # Absent
  /\ IF Parses(file)
     THEN /\ gpc' = [gpc EXCEPT ![b] = "resolved"]
          /\ gres' = [gres EXCEPT ![b] = JSONparse(file)]
     ELSE /\ gpc' = [gpc EXCEPT ![b] = "rejected"]
          /\ UNCHANGED gres
  /\ hist' = Step(b, hist)
  /\ UNCHANGED NotBackend
  /\ UNCHANGED <<file, legacy, cache, kind, mpc, oldData, spc, faults>>

GetReadFile(b) ==
  /\ gpc[b] = "readFile" /\ file # Absent
  /\ IF Parses(file)
     THEN /\ gpc' = [gpc EXCEPT ![b] = "resolved"]
          /\ gres' = [gres EXCEPT ![b] = JSONparse(file)]
     ELSE /\ gpc' = [gpc EXCEPT ![b] = "writeDefault"]
          /\ UNCHANGED gres
  /\ hist' = Step(b, hist)
  /\ UNCHANGED NotBackend
  /\ UNCHANGED <<file, legacy, cache, kind, mpc, oldData, spc, faults>>

\* await writeFile("documents", filePathFixer(file), JSON.stringify(defaultData))
GetWriteDefault(b) ==
  /\ gpc[b] = "writeDefault"
  /\ file' = defaultStr
  /\ gpc' = [gpc EXCEPT ![b] = "readBack"]
  /\ hist' = Step(b, hist)
  /\ UNCHANGED NotBackend
  /\ UNCHANGED <<legacy, cache, kind, mpc, oldData, gres, spc, faults>>

\* return JSON.parse(await readFile(path, "utf8"))
GetReadBack(b) ==
  /\ gpc[b] = "readBack" /\ file # Absent
  /\ IF Parses(file)
     THEN /\ gpc' = [gpc EXCEPT ![b] = "resolved"]
          /\ gres' = [gres EXCEPT ![b] = JSONparse(file)]
     ELSE /\ gpc' = [gpc EXCEPT ![b] = "rejected"]
          /\ UNCHANGED gres
  /\ hist' = Step(b, hist)
  /\ UNCHANGED NotBackend
  /\ UNCHANGED <<file, legacy, cache, kind, mpc, oldData, spc, faults>>

\* a native call of get() rejects: get() rejects
GetFail(b) ==
  /\ faults < MaxFaults
  /\ gpc[b] \in {"fileExists", "readFile", "writeDefault", "readBack"}
  /\ gpc' = [gpc EXCEPT ![b] = "rejected"]
  /\ faults' = faults + 1
  /\ hist' = [Step(b, hist) EXCEPT ![b].failed = "get"]
  /\ UNCHANGED NotBackend
  /\ UNCHANGED <<file, legacy, cache, kind, mpc, oldData, gres, spc>>

\* backend.set(data) is called once get() has settled: await migratePromise
SetCall(b) ==
  /\ gpc[b] \in {"resolved", "rejected"} /\ spc[b] = "idle"
  /\ spc' = [spc EXCEPT ![b] = "await"]
  /\ hist' = Step(b, hist)
  /\ UNCHANGED NotBackend
  /\ UNCHANGED <<file, legacy, cache, kind, mpc, oldData, gpc, gres, faults>>

\* await migratePromise settles: set() goes on, or rejects with the migration
SetAwaitMigration(b) ==
  /\ spc[b] = "await"
  /\ mpc[b] \in {"done", "nomig", "rejected"}
  /\ spc' = [spc EXCEPT ![b] = IF mpc[b] = "rejected" THEN "rejected" ELSE "writeFile"]
  /\ hist' = Step(b, hist)
  /\ UNCHANGED NotBackend
  /\ UNCHANGED <<file, legacy, cache, kind, mpc, oldData, gpc, gres, faults>>

\* await writeFile("documents", filePathFixer(file), JSON.stringify(data), "utf8")
SetWriteFile(b) ==
  /\ spc[b] = "writeFile"
  /\ file' = JSONstringify(DocE)
  /\ spc' = [spc EXCEPT ![b] = "done"]
  /\ hist' = Step(b, hist)
  /\ UNCHANGED NotBackend
  /\ UNCHANGED <<legacy, cache, kind, mpc, oldData, gpc, gres, faults>>

\* set()'s writeFile rejects: set() rejects
SetFail(b) ==
  /\ faults < MaxFaults
  /\ spc[b] = "writeFile"
  /\ spc' = [spc EXCEPT ![b] = "rejected"]
  /\ faults' = faults + 1
  /\ hist' = [Step(b, hist) EXCEPT ![b].failed = "set"]
  /\ UNCHANGED NotBackend
  /\ UNCHANGED <<file, legacy, cache, kind, mpc, oldData, gpc, gres>>

MNext ==
  \E b \in Backends :
    \/ CreateMMKVBackend(b)
    \/ CreateFileBackend(b)
    \/ MigFileExists(b)
    \/ MigGetItem(b)
    \/ MigCacheExists(b)
    \/ MigCacheRead(b)
    \/ MigWriteFile(b)
    \/ MigRemoveItem(b)
    \/ MigFail(b)
    \/ MigWriteFail(b)
    \/ GetCall(b)
    \/ GetAwaitMigration(b)
    \/ GetFileExists(b)
    \/ GetReadFile(b)
    \/ GetWriteDefault(b)
    \/ GetReadBack(b)
    \/ GetFail(b)
    \/ SetCall(b)
    \/ SetAwaitMigration(b)
    \/ SetWriteFile(b)
    \/ SetFail(b)


(***************************************************************************)
(* The sync adapter: wrapSync(store) and awaitStorage(...stores).          *)
(***************************************************************************)
\* callbacks a consumer hands to awaitInit directly
MaxCbs == 2

\* the wrapped store promises
Stores == {1, 2}

Zero == <<"number", 0>>

\* what a wrapped promise may resolve to: a session proxy, or any other value
ResolveValues == {Px(1), Null, Zero}

\* JavaScript truthiness, as the conditional awaited ? ... : ... tests it
Truthy(v) == v \notin {Undef, Null, Zero}

SyncState ==
  [awaited |-> awaited, queue |-> awaitQueue, cbs |-> cbs, log |-> runLog,
   inner |-> inner, resolved |-> [s \in Stores |-> pstate[s] = "resolved"]]

RECURSIVE awaitInit(_, _, _), RunCb(_, _)

\* a callback runs: res() settles its inner promise; a consumer's callback may hand
\* a further callback to awaitInit of the same store
RunCb(sy, c) ==
  LET s1 == [sy EXCEPT !.log = Append(@, c)]
      cb == sy.cbs[c]
  IN IF cb.isRes THEN [s1 EXCEPT !.inner[cb.store] = TRUE]
     ELSE IF cb.nests
          THEN LET child == [store |-> cb.store, nests |-> FALSE, isRes |-> FALSE,
                             after |-> s1.resolved[cb.store]]
                   s2 == [s1 EXCEPT !.cbs = Append(@, child)]
               IN awaitInit(s2, cb.store, Len(s2.cbs))
          ELSE s1

\* const awaitInit = (cb) => (awaited ? cb() : awaitQueue.push(cb))
awaitInit(sy, s, c) ==
  IF Truthy(sy.awaited[s]) THEN RunCb(sy, c) ELSE [sy EXCEPT !.queue[s] = Append(@, c)]

\* awaitQueue.forEach((cb) => cb()): the elements present when forEach was called
RECURSIVE ForEach(_, _, _, _)
ForEach(sy, s, i, n) ==
  IF i > n THEN sy ELSE ForEach(RunCb(sy, sy.queue[s][i]), s, i + 1, n)

SCommit(sy) ==
  /\ awaited' = sy.awaited
  /\ awaitQueue' = sy.queue
  /\ cbs' = sy.cbs
  /\ runLog' = sy.log
  /\ inner' = sy.inner
  /\ UNCHANGED NotSync

SInit ==
  /\ pstate = [s \in Stores |-> "pending"]
  /\ awaited = [s \in Stores |-> Undef]
  /\ awaitQueue = [s \in Stores |-> <<>>]
  /\ cbs = <<>>
  /\ runLog = <<>>
  /\ inner = [s \in Stores |-> FALSE]
  /\ awaitCall = FALSE
  /\ awaitAll = "none"
  /\ order = <<>>
  /\ ph = [s \in Stores |-> EmptyObj]

\* store[syncAwaitSymbol](cb) by a consumer
Register(s, nests) ==
  /\ Len(SelectSeq(cbs, LAMBDA cb : ~cb.isRes)) + (IF nests THEN 1 ELSE 0) < MaxCbs
  /\ LET cb == [store |-> s, nests |-> nests, isRes |-> FALSE,
                after |-> pstate[s] = "resolved"]
         s1 == [SyncState EXCEPT !.cbs = Append(@, cb)]
     IN SCommit(awaitInit(s1, s, Len(s1.cbs)))
  /\ UNCHANGED <<pstate, awaitCall, awaitAll, order>>

\* store.then((v) => { awaited = v; awaitQueue.forEach((cb) => cb()); })
Resolve(s, v) ==
  /\ pstate[s] = "pending"
  /\ pstate' = [pstate EXCEPT ![s] = "resolved"]
  /\ order' = Append(order, s)
  /\ LET s1 == [SyncState EXCEPT !.awaited[s] = v, !.resolved[s] = TRUE]
     IN SCommit(ForEach(s1, s, 1, Len(awaitQueue[s])))
  /\ UNCHANGED <<awaitCall, awaitAll>>

\* the wrapped promise rejects: the then callback never runs
Reject(s) ==
  /\ pstate[s] = "pending"
  /\ pstate' = [pstate EXCEPT ![s] = "rejected"]
  /\ UNCHANGED <<awaited, awaitQueue, cbs, runLog, inner, awaitCall, awaitAll, order>>
  /\ UNCHANGED NotSync

\* one store of awaitStorage: new Promise((res) => store[syncAwaitSymbol](res))
RECURSIVE MapStores(_, _)
MapStores(sy, todo) ==
  IF todo = {} THEN sy
  ELSE LET s == CHOOSE x \in todo : \A y \in todo : x <= y
           res == [store |-> s, nests |-> FALSE, isRes |-> TRUE, after |-> sy.resolved[s]]
           s1 == [sy EXCEPT !.cbs = Append(@, res)]
       IN MapStores(awaitInit(s1, s, Len(s1.cbs)), todo \ {s})

\* awaitStorage(...stores) over all the wrapped stores
AwaitStorage ==
  /\ ~awaitCall
  /\ awaitCall' = TRUE
  /\ awaitAll' = "pending"
  /\ SCommit(MapStores(SyncState, Stores))
  /\ UNCHANGED <<pstate, order>>

\* Promise.any-like settling: resolved as soon as one inner promise is
AllSettleAny ==
  /\ awaitAll = "pending"
  /\ \E s \in Stores : inner[s]
  /\ awaitAll' = "resolved"
  /\ UNCHANGED <<pstate, awaited, awaitQueue, cbs, runLog, inner, awaitCall, order>>
  /\ UNCHANGED NotSync

\* Promise.all(...) resolves once every inner promise is resolved
AllSettle ==
  /\ awaitAll = "pending"
  /\ \A s \in Stores : inner[s]
  /\ awaitAll' = "resolved"
  /\ UNCHANGED <<pstate, awaited, awaitQueue, cbs, runLog, inner, awaitCall, order>>
  /\ UNCHANGED NotSync

SNext ==
  \/ \E s \in Stores, nests \in BOOLEAN : Register(s, nests)
  \/ \E s \in Stores, v \in ResolveValues : Resolve(s, v)
  \/ \E s \in Stores : Reject(s)
  \/ AwaitStorage
  \/ AllSettle

(***************************************************************************)
(* Operations on the object wrapSync returns: every trap forwards to       *)
(* Reflect[k](awaited ?? t, ...), t being the empty object the Proxy is on. *)
(***************************************************************************)
Placeholder(s) == <<"placeholder", s>>

IsPlaceholder(v) == v[1] = "placeholder"

\* a forwarding that never leaves the placeholder
forwardPlaceholderOnly(s) == Placeholder(s)

\* awaited ?? t
forward(s) == IF awaited[s] \notin {Undef, Null} THEN awaited[s] ELSE Placeholder(s)

\* an operation through wrapped store s that did not reach a session
WrapLocal ==
  /\ nOps' = nOps + 1
  /\ events' = <<>>
  /\ refreshed' = 0
  /\ UNCHANGED <<heap, px, childrens, proxiedChildrenSet, listeners, emitted, setCalls,
                 handed, userObjs, sub, writes, disk, completed>>
  /\ UNCHANGED <<mvars, svars>>

\* what is recorded of an operation through wrapped store s forwarded to t
WrapInfo(s, t) ==
  [store |-> s, pending |-> pstate[s] = "pending", doc |-> Snapshot(State, Px(1)),
   held |-> ph[s]]

\* wrapped[k]: Reflect.get(awaited ?? target, prop, recv)
WrapGet(s, k) ==
  /\ nOps < MaxOps
  /\ LET t == forward(s)
     IN IF IsPx(t)
        THEN LET r == RefGet(State, t, k)
             IN /\ Commit(r.st)
                /\ handed' = handed \cup
                      (IF Typeof(r.ret) = "object" /\ r.ret # Null THEN {r.ret} ELSE {})
                /\ lastOp' = [op |-> "get", recv |-> t, key |-> k, ret |-> r.ret,
                              threw |-> FALSE, via |-> WrapInfo(s, t)]
                /\ UNCHANGED userObjs
        ELSE /\ WrapLocal
             /\ lastOp' = [op |-> "get", recv |-> t, key |-> k,
                           ret |-> IF IsPlaceholder(t) THEN ph[s][k] ELSE Undef,
                           threw |-> ~IsPlaceholder(t), via |-> WrapInfo(s, t)]
             /\ UNCHANGED ph

\* wrapped[k] = v: Reflect.set(awaited ?? t, prop, value, recv); on the placeholder
\* the property is defined through the defineProperty trap, on t again
WrapSet(s, k, v) ==
  /\ nOps < MaxOps
  /\ LET t == forward(s)
     IN IF IsPx(t)
        THEN LET w == RefSet(State, t, k, v)
             IN /\ Commit(w.st)
                /\ lastOp' = [op |-> "set", recv |-> t, key |-> k, val |-> v,
                              threw |-> w.threw, calls |-> w.st.calls,
                              via |-> WrapInfo(s, t)]
                /\ UNCHANGED <<handed, userObjs>>
        ELSE /\ WrapLocal
             /\ lastOp' = [op |-> "set", recv |-> t, key |-> k, val |-> v,
                           threw |-> ~IsPlaceholder(t), calls |-> 0,
                           via |-> WrapInfo(s, t)]
             /\ ph' = IF IsPlaceholder(t) THEN [ph EXCEPT ![s][k] = v] ELSE ph

\* k in wrapped: Reflect.has(awaited ?? t, prop); createProxy defines no has trap
WrapHas(s, k) ==
  /\ nOps < MaxOps
  /\ LET t == forward(s)
     IN /\ WrapLocal
        /\ lastOp' = [op |-> "has", recv |-> t, key |-> k,
                      ret |-> IF IsPx(t) THEN Stored(State, t, k) # Undef
                              ELSE IsPlaceholder(t) /\ ph[s][k] # Undef,
                      threw |-> ~IsPx(t) /\ ~IsPlaceholder(t), via |-> WrapInfo(s, t)]
        /\ UNCHANGED ph

\* delete wrapped[k]: Reflect.deleteProperty(awaited ?? t, prop)
WrapDelete(s, k) ==
  /\ nOps < MaxOps
  /\ LET t == forward(s)
     IN IF IsPx(t)
        THEN LET held == Stored(State, t, k)
                 d == RefDelete(State, t, k)
             IN /\ Commit(d.st)
                /\ lastOp' = [op |-> "del", recv |-> t, key |-> k, held |-> held,
                              heldProxy |-> ChGet(State, held), ret |-> d.ret,
                              threw |-> FALSE, calls |-> d.st.calls,
                              via |-> WrapInfo(s, t)]
                /\ UNCHANGED <<handed, userObjs>>
        ELSE /\ WrapLocal
             /\ lastOp' = [op |-> "del", recv |-> t, key |-> k, held |-> Undef,
                           heldProxy |-> Undef, ret |-> IsPlaceholder(t),
                           threw |-> ~IsPlaceholder(t), calls |-> 0,
                           via |-> WrapInfo(s, t)]
             /\ ph' = IF IsPlaceholder(t) THEN [ph EXCEPT ![s][k] = Undef] ELSE ph

WNext ==
  \/ \E s \in Stores, v \in ResolveValues : Resolve(s, v)
  \/ \E s \in Stores, k \in Keys : WrapGet(s, k)
  \/ \E s \in Stores, k \in Keys : WrapSet(s, k, Num)
  \/ \E s \in Stores, k \in Keys : WrapHas(s, k)
  \/ \E s \in Stores, k \in Keys : WrapDelete(s, k)


(***************************************************************************)
(* Specifications.  Spec: one storage session and its consumer.  SpecMig:  *)
(* the backends of one store and their migration.                          *)
(***************************************************************************)
vars == <<pvars, mvars, svars, ph>>

\* a part of the system that a specification leaves out stays as constructed
PIdle ==
  /\ heap = <<EmptyObj>>
  /\ px = <<[target |-> Raw(1), path |-> <<>>]>>
  /\ childrens = {}
  /\ proxiedChildrenSet = {}
  /\ listeners = createStorageListeners
  /\ emitted = [e \in {"SET", "DEL"} |-> 0]
  /\ setCalls = 0
  /\ events = <<>>
  /\ handed = {Px(1)}
  /\ userObjs = {}
  /\ nOps = 0
  /\ lastOp = [op |-> "init"]
  /\ sub = [phase |-> "none", storage |-> Undef]
  /\ refreshed = 0
  /\ writes = <<>>
  /\ disk = <<>>
  /\ completed = <<>>

MIdle ==
  /\ file = Absent
  /\ legacy = NullItem
  /\ cache = Absent
  /\ kind = [b \in Backends |-> "none"]
  /\ mpc = [b \in Backends |-> "none"]
  /\ oldData = [b \in Backends |-> defaultStr]
  /\ gpc = [b \in Backends |-> "idle"]
  /\ gres = [b \in Backends |-> "none"]
  /\ spc = [b \in Backends |-> "idle"]
  /\ faults = 0
  /\ hist = [b \in Backends |-> NoHist]

Init == PInit /\ MIdle /\ SInit

Spec == Init /\ [][PNext]_vars

InitMig == MInit /\ PIdle /\ SInit

\* a session and the writes of its backend
SpecPersist == Init /\ [][PersistNext]_vars

\* a session with a component that uses the hook
SpecHook == Init /\ [][HNext]_vars

SpecMig == InitMig /\ [][MNext]_vars

InitSync == SInit /\ PIdle /\ MIdle

SpecSync == InitSync /\ [][SNext]_vars

\* a session handed out through wrapSync
InitWrap == PInit /\ MIdle /\ SInit

SpecWrap == InitWrap /\ [][WNext]_vars

\* the event loop runs the reactions of a settled Promise.all
SpecSyncFair == SpecSync /\ WF_vars(AllSettle)

(***************************************************************************)
(* Claims about the proxy session (specification Spec).                    *)
(***************************************************************************)
\* the events of the last operation of one kind
EventsOf(e) == {i \in 1..Len(events) : events[i].kind = e}

\* v is object o itself or a wrapper around it
WrapperOf(st, v, o) ==
  Typeof(o) = "object" /\ o # Null /\ (v = o \/ (IsPx(v) /\ Unwrap(st, v) = Unwrap(st, o)))

\* C1: the number of backend set() invocations equals the number of SET events plus
\* the number of DEL events the session's emitter emitted; GET events cause none.
C1_SetCallsEqualMutatingEvents == setCalls = emitted["SET"] + emitted["DEL"]

\* C1 witness: SET and DEL events were emitted and the last operation was a read that
\* emitted a GET event.
C1_Witness ==
  /\ emitted["SET"] >= 1 /\ emitted["DEL"] >= 1
  /\ lastOp.op = "get" /\ EventsOf("GET") # {}

\* C2: assigning a JSON value v at a path through the proxy and then reading the path
\* through the proxy returns v (for a non-primitive v: a wrapper around v).
C2_WriteThenReadReturnsValue ==
  (lastOp.op = "set" /\ IsPx(lastOp.recv) /\ lastOp.val # Undef) =>
    /\ ~lastOp.threw
    /\ LET r == RefGet(State, lastOp.recv, lastOp.key)
       IN IF Typeof(lastOp.val) = "object" /\ lastOp.val # Null
          THEN IsPx(r.ret) /\ WrapperOf(r.st, r.ret, lastOp.val)
          ELSE r.ret = lastOp.val

\* C3: two reads of the same path holding a non-primitive value, with no write or
\* delete between them, return the identical instance: a read just performed and a
\* read repeated after it, and any two successive reads from the current state.
C3_RepeatedReadSameInstance ==
  /\ (lastOp.op = "get" /\ IsPx(lastOp.recv) /\ Typeof(lastOp.ret) = "object"
        /\ lastOp.ret # Null) =>
       RefGet(State, lastOp.recv, lastOp.key).ret = lastOp.ret
  /\ \A x \in handed, k \in Keys :
       LET r1 == RefGet(State, x, k)
           r2 == RefGet(r1.st, x, k)
       IN (IsPx(x) /\ Typeof(r1.ret) = "object" /\ r1.ret # Null) => r2.ret = r1.ret

\* C3 witness: the last operation read an object that was assigned through the proxy
\* (it is stored as a proxy) and got a proxy for it; so did a read of a loaded object.
C3_Witness ==
  /\ lastOp.op = "get" /\ IsPx(lastOp.recv) /\ IsPx(lastOp.ret)
  /\ IsPx(Stored(State, lastOp.recv, lastOp.key))
  /\ \E x \in handed, k \in Keys : IsPx(x) /\ IsRaw(Stored(State, x, k)) /\
        ChHas(State, Stored(State, x, k))

\* C4: deleting key k through the proxy emits a DEL event whose value is the value
\* held at k immediately before the deletion (a non-primitive: the object or its
\* proxy, never undefined), and a subsequent read of k returns undefined.
C4_DeleteEmitsHeldValue ==
  (lastOp.op = "del" /\ IsPx(lastOp.recv)) =>
    /\ EventsOf("DEL") # {}
    /\ \A i \in EventsOf("DEL") :
         IF Typeof(lastOp.held) = "object" /\ lastOp.held # Null
         THEN WrapperOf(State, events[i].value, lastOp.held)
         ELSE events[i].value = lastOp.held
    /\ RefGet(State, lastOp.recv, lastOp.key).ret = Undef

\* the events of the last operation that useProxy's listener answers with a refresh
Refreshing == {i \in 1..Len(events) :
                 events[i].kind = "SET" \/
                 (events[i].kind = "DEL" /\ events[i].value # sub.storage)}

\* C11: while the component is mounted, every SET event and every DEL event whose
\* value is not the subscribed object triggers exactly one refresh, wherever in the
\* document the mutation is; a DEL whose value is the subscribed object triggers
\* none; before mount and after unmount no event triggers a refresh.
C11_RefreshPerMutatingEvent ==
  refreshed = IF sub.phase = "mounted" THEN Cardinality(Refreshing) ELSE 0

\* C11 witness: a component subscribed to a sub-object's proxy saw a SET elsewhere in
\* the document, and the deletion of its own object just emitted a DEL carrying the
\* subscribed proxy, which triggered no refresh.
C11_Witness ==
  /\ sub.phase = "mounted" /\ sub.storage # Px(1) /\ emitted["SET"] >= 1
  /\ lastOp.op = "del" /\ refreshed = 0
  /\ \E i \in EventsOf("DEL") : events[i].value = sub.storage

\* every backend.set call made so far has completed its write
AllWritesDone == writes # <<>> /\ \A i \in 1..Len(writes) : writes[i].pc = "done"

\* C12: no write is lost: whatever the mutations and whatever the order in which the
\* backend set() operations complete, once all of them have completed the persisted
\* content equals the serialization of the current in-memory document.
C12_NoWriteLost == AllWritesDone => disk = stringify(State, Px(1)).out

\* C17: backend set operations start in the order of the mutations that triggered
\* them and are not sequenced against each other: the file always holds the text of
\* the write that completed last, whether or not it was the one started last.
C17_LastCompletedWriteWins ==
  /\ \A i \in 1..Len(writes), j \in 1..Len(writes) :
       (i < j /\ writes[j].pc # "await") => writes[i].pc # "await"
  /\ disk = IF completed = <<>> THEN <<>> ELSE writes[completed[Len(completed)]].data
  /\ \A n \in 1..Len(completed) : writes[completed[n]].pc = "done"

\* C17 witness: two writes were in flight together, the later-started one completed
\* first, and the file holds the earlier one's text, which differs from the later's.
C17_Witness ==
  \E i \in 1..Len(writes), j \in 1..Len(writes) :
    /\ i < j /\ writes[i].pc = "done" /\ writes[j].pc = "done"
    /\ completed = <<j, i>>
    /\ disk = writes[i].data /\ writes[i].data # writes[j].data

\* C14: no read through the proxy hands out a raw, unwrapped object, and every
\* assignment or deletion through a reference obtained by reading is intercepted: it
\* emits at least one SET or DEL event.
C14_EveryMutationIntercepted ==
  /\ \A x \in handed : IsPx(x)
  /\ (lastOp.op = "get" /\ Typeof(lastOp.ret) = "object" /\ lastOp.ret # Null) =>
       IsPx(lastOp.ret)
  /\ (lastOp.op = "set" /\ ~lastOp.threw) => EventsOf("SET") # {}
  /\ (lastOp.op = "del" /\ lastOp.ret) => EventsOf("DEL") # {}

\* the value found by following a sequence of keys from v, as the document stands
RECURSIVE Walk(_, _, _)
Walk(st, v, path) ==
  IF path = <<>> THEN v
  ELSE IF Typeof(v) # "object" \/ v = Null THEN Undef
  ELSE Walk(st, st.heap[Unwrap(st, v)[2]][Head(path)], Tail(path))

\* path leads from the root to property k of the object behind reference x
RouteTo(path, x, k) ==
  /\ path # <<>>
  /\ path[Len(path)] = k
  /\ LET parent == Walk(State, Px(1), SubSeq(path, 1, Len(path) - 1))
     IN /\ Typeof(parent) = "object" /\ parent # Null
        /\ Unwrap(State, parent) = Unwrap(State, x)

\* the object behind reference x is part of the document
InDocument(x) == Unwrap(State, x)[2] \in Reach(State, Px(1), MaxRaw + 1)

\* C15: in every GET, SET and DEL event the path is the full sequence of keys from
\* the proxy root to the affected property as the document currently stands, also
\* for operations through a reference retained while the object was moved.
C15_PathIsRouteFromRoot ==
  (lastOp.op \in {"get", "set", "del"} /\ IsPx(lastOp.recv) /\ InDocument(lastOp.recv)) =>
    \A i \in 1..Len(events) : RouteTo(events[i].path, lastOp.recv, lastOp.key)

\* C16: a value that is already a proxy of the session is never wrapped again: no
\* proxy the session created has another proxy as its target.
C16_NoProxyOfProxy == \A p \in 1..Len(px) : ~IsPx(px[p].target)

\* C18: an assignment through the proxy always succeeds: for every value written the
\* set operation completes without throwing, stores the value and emits a SET event;
\* a failure of the backend set it triggers does not roll the document back.
C18_SetAlwaysSucceeds ==
  /\ (lastOp.op = "set" /\ IsPx(lastOp.recv)) =>
       /\ ~lastOp.threw
       /\ EventsOf("SET") # {}
       /\ LET now == Stored(State, lastOp.recv, lastOp.key)
          IN IF Typeof(lastOp.val) = "object" /\ lastOp.val # Null
             THEN WrapperOf(State, now, lastOp.val) ELSE now = lastOp.val
  /\ lastOp.op = "writeFail" => Snapshot(State, Px(1)) = lastOp.doc

\* C19: a single assignment through the proxy emits exactly one SET event, a single
\* delete exactly one DEL event, hence one backend set call and at most one refresh
\* of the subscriber, at every depth and also on objects that were assigned through
\* the proxy and read back.
C19_OneEventPerMutation ==
  /\ (lastOp.op = "set" /\ IsPx(lastOp.recv) /\ ~lastOp.threw) =>
       /\ Cardinality(EventsOf("SET")) = 1 /\ EventsOf("DEL") = {}
       /\ lastOp.calls = 1
       /\ sub.phase = "mounted" => refreshed = 1
  /\ (lastOp.op = "del" /\ IsPx(lastOp.recv) /\ lastOp.ret) =>
       /\ Cardinality(EventsOf("DEL")) = 1 /\ EventsOf("SET") = {}
       /\ lastOp.calls = 1
       /\ refreshed <= 1

(***************************************************************************)
(* Claims about the object wrapSync returns (specification SpecWrap).      *)
(***************************************************************************)
\* the last operation went through a wrapped store
ViaWrap == "via" \in DOMAIN lastOp

\* C13: before the wrapped promise resolves, every read, write, membership test and
\* delete through the wrapSync object works on the private placeholder, does not
\* throw and leaves the Document alone; once the promise has resolved to a Document,
\* every such operation is applied to that Document: reads return its data, writes
\* and deletes change it and emit its SET and DEL events.
C13_PlaceholderThenDocument ==
  ViaWrap =>
    LET s == lastOp.via.store
        k == lastOp.key
        now == Stored(State, Px(1), k)
    IN /\ lastOp.via.pending =>
            /\ IsPlaceholder(lastOp.recv) /\ ~lastOp.threw
            /\ events = <<>>
            /\ Snapshot(State, Px(1)) = lastOp.via.doc
            /\ lastOp.op = "get" => lastOp.ret = lastOp.via.held[k]
            /\ lastOp.op = "has" => lastOp.ret = (lastOp.via.held[k] # Undef)
            /\ lastOp.op = "set" => ph[s][k] = lastOp.val
            /\ lastOp.op = "del" => ph[s][k] = Undef
       /\ (~lastOp.via.pending /\ IsPx(awaited[s])) =>
            /\ lastOp.recv = awaited[s]
            /\ ph[s] = lastOp.via.held
            /\ lastOp.op = "get" =>
                 IF Typeof(now) = "object" /\ now # Null
                 THEN WrapperOf(State, lastOp.ret, now) ELSE lastOp.ret = now
            /\ lastOp.op = "has" => lastOp.ret = (now # Undef)
            /\ (lastOp.op = "set" /\ ~lastOp.threw) =>
                 (now = lastOp.val /\ EventsOf("SET") # {})
            /\ lastOp.op = "del" => (now = Undef /\ EventsOf("DEL") # {})

\* C13 witness: a write made before resolution stayed in the placeholder, and a write
\* made through the same wrapper after resolution reached the Document and emitted SET.
C13_Witness ==
  /\ ViaWrap /\ lastOp.op = "set" /\ ~lastOp.via.pending /\ lastOp.key = "b"
  /\ IsPx(awaited[lastOp.via.store]) /\ EventsOf("SET") # {}
  /\ ph[lastOp.via.store]["a"] = Num /\ Stored(State, Px(1), "a") # Num
  /\ Stored(State, Px(1), "b") = Num

(***************************************************************************)
(* Claims about the backends and the migration (specification SpecMig).    *)
(***************************************************************************)
\* get() of backend b has resolved or rejected
Settled(b) == gpc[b] \in {"resolved", "rejected"}

\* backend b ran with no other backend stepping meanwhile and none of its calls rejected
Undisturbed(b) == ~hist[b].overlap /\ hist[b].failed = "none"

\* no set() has written the file
NoSetWrote == \A c \in Backends : spc[c] # "done"

\* C5: with a parseable legacy document D and no file, get() of a createMMKVBackend
\* backend resolves to D, the file then holds D and the legacy entry is removed; a
\* backend made later finds the file, resolves to D from it and never reads, writes
\* or removes the legacy entry.
C5_OneTimeMigration ==
  \A b \in Backends :
    (kind[b] = "mmkv" /\ Undisturbed(b)) =>
      /\ (hist[b].born.file = Absent /\ Parses(hist[b].born.legacy) /\ Settled(b)) =>
           /\ gpc[b] = "resolved"
           /\ gres[b] = JSONparse(hist[b].born.legacy)
           /\ legacy = NullItem
           /\ NoSetWrote => file = hist[b].born.legacy
      /\ Parses(hist[b].born.file) =>
           /\ ~hist[b].touched
           /\ Settled(b) => (gpc[b] = "resolved" /\ gres[b] = JSONparse(hist[b].born.file))

\* C5 witness: one backend migrated D and resolved to it; another, made after that,
\* found the file, resolved to D and left the legacy store alone.
C5_Witness ==
  \E a \in Backends, b \in Backends :
    /\ a # b /\ kind[a] = "mmkv" /\ kind[b] = "mmkv" /\ Undisturbed(a) /\ Undisturbed(b)
    /\ hist[a].born = [file |-> Absent, legacy |-> JSONstringify(DocD)]
    /\ hist[a].removed /\ gpc[a] = "resolved" /\ gres[a] = DocD
    /\ hist[b].born = [file |-> JSONstringify(DocD), legacy |-> NullItem]
    /\ gpc[b] = "resolved" /\ gres[b] = DocD /\ ~hist[b].touched

\* C6: when the file exists with unparseable content, get() does not reject and
\* resolves to the default value, as it does for a file backend whose file is absent.
C6_CorruptFileYieldsDefault ==
  \A b \in Backends :
    (kind[b] # "none" /\ Undisturbed(b) /\ Settled(b)) =>
      /\ hist[b].born.file = BadText => (gpc[b] = "resolved" /\ gres[b] = DefaultData)
      /\ (hist[b].born.file = Absent /\ kind[b] = "file") =>
           (gpc[b] = "resolved" /\ gres[b] = DefaultData)

\* C6 witness: a backend made while the file was unparseable resolved to the default.
C6_Witness ==
  \E b \in Backends :
    /\ kind[b] # "none" /\ Undisturbed(b) /\ hist[b].born.file = BadText
    /\ gpc[b] = "resolved" /\ gres[b] = DefaultData /\ file = defaultStr

\* C7: if the migration fails at any step, get() on the same backend still resolves
\* (to the default value) instead of rejecting, and a later set() is able to write.
C7_MigrationFailureStillUsable ==
  \A b \in Backends :
    mpc[b] = "rejected" =>
      /\ Settled(b) => (gpc[b] = "resolved" /\ gres[b] = DefaultData)
      /\ hist[b].failed # "set" => spc[b] # "rejected"

\* C8: the migration removes the legacy entry only after its write of the recovered
\* (or default) value has completed: in every execution, a migration that removed the
\* entry had written the file, a migration whose write failed removed nothing, and
\* whenever the legacy entry is gone the file exists; it holds the migrated value for
\* as long as no other backend and no set() has written it.
C8_RemoveOnlyAfterWrite ==
  /\ \A b \in Backends :
       /\ hist[b].removed => (hist[b].wrote /\ file # Absent)
       /\ (hist[b].removed /\ ~hist[b].overlap /\ NoSetWrote) => file = oldData[b]
       /\ hist[b].failed = "migrationWrite" => ~hist[b].removed
  /\ (legacy = NullItem /\ \E b \in Backends : hist[b].born.legacy # NullItem) =>
       /\ file # Absent
       /\ \E c \in Backends : hist[c].removed /\ hist[c].wrote

\* C8 witness: one migration's write failed, leaving the legacy entry in place; a
\* later migration wrote the file and then removed the entry.
C8_Witness ==
  \E b \in Backends, c \in Backends :
    /\ hist[c].failed = "migrationWrite" /\ ~hist[c].removed
    /\ hist[b].born.legacy = JSONstringify(DocD)
    /\ hist[b].removed /\ hist[b].wrote /\ legacy = NullItem /\ file = JSONstringify(DocD)

\* both backends were made by createMMKVBackend while D was in the legacy store and
\* no file existed, and every promise of theirs has settled without a rejection
BothMigrated ==
  \A b \in Backends :
    /\ kind[b] = "mmkv"
    /\ hist[b].born = [file |-> Absent, legacy |-> JSONstringify(DocD)]
    /\ mpc[b] = "done"
    /\ hist[b].failed = "none"

\* C20: if two backends for the same store are created with createMMKVBackend while
\* the legacy store holds D and no file exists, then for every interleaving of the
\* two migrations, once both have finished the file holds D.
C20_InterleavedMigrationKeepsData ==
  (BothMigrated /\ NoSetWrote) => file = JSONstringify(DocD)

(***************************************************************************)
(* Claims about the sync adapter (specifications SpecSync, SpecSyncFair).  *)
(***************************************************************************)
\* how many times callback c was invoked
Runs(c) == Cardinality({i \in 1..Len(runLog) : runLog[i] = c})

\* callback c sits in its store's awaitQueue
InQueue(c) == \E i \in 1..Len(awaitQueue[cbs[c].store]) : awaitQueue[cbs[c].store][i] = c

\* position of callback c in a sequence of callbacks
Pos(q, c) == CHOOSE i \in 1..Len(q) : q[i] = c

AllResolved == \A s \in Stores : pstate[s] = "resolved"

\* C9: the promise awaitStorage returns is not resolved while any given session is
\* unresolved, and it does resolve once all sessions have completed their load.
C9_AwaitStorageWaitsForAll ==
  /\ [](awaitAll = "resolved" => AllResolved)
  /\ (awaitCall /\ AllResolved /\ \A s \in Stores : IsPx(awaited[s])) ~> (awaitAll = "resolved")

\* C9 witness: store 2 resolved before awaitStorage was called (its res ran at once),
\* store 1 after it (its res waited in the queue), and awaitStorage's promise resolved.
C9_Witness ==
  /\ awaitAll = "resolved" /\ order = <<2, 1>>
  /\ \A s \in Stores : IsPx(awaited[s])
  /\ \E c \in 1..Len(cbs) : cbs[c].isRes /\ cbs[c].store = 1 /\ InQueue(c)
  /\ \E c \in 1..Len(cbs) : cbs[c].isRes /\ cbs[c].store = 2 /\ ~InQueue(c)

\* C10: for every value the wrapped promise resolves to, callbacks registered before
\* resolution run exactly once each, in enqueue order, when it resolves; a callback
\* registered after resolution runs immediately and is never left in the queue; no
\* callback runs twice.
C10_QueueDrainedOnceThenImmediate ==
  \A c \in 1..Len(cbs) :
    /\ Runs(c) <= 1
    /\ cbs[c].after => (Runs(c) = 1 /\ ~InQueue(c))
    /\ (~cbs[c].after /\ pstate[cbs[c].store] = "resolved") =>
         /\ Runs(c) = 1
         /\ \A d \in 1..Len(cbs) :
              (~cbs[d].after /\ cbs[d].store = cbs[c].store /\ Runs(d) = 1
                 /\ Pos(awaitQueue[cbs[c].store], c) < Pos(awaitQueue[cbs[c].store], d)) =>
                Pos(runLog, c) < Pos(runLog, d)

====
